---- MODULE Spec2Model ----
(***************************************************************************)
(* A model of the serial-line message broker of src/src/lib.rs             *)
(* (SerialInterface): the Mode Driver (start), Command Intake              *)
(* (read_message), the Framing Engine (clear_read_buffer, read_byte,       *)
(* read_until_size_or_silence_or_timeout_or_message, read_stream,          *)
(* try_decode_buffer, crc16) and the mode behaviours (run_master,          *)
(* run_master_stream, run_slave, run_sniff).  The std-mpsc flavour is      *)
(* modelled; the async-channel flavour differs only in awaiting sends.     *)
(*                                                                         *)
(* Durations are counted in ticks of an abstract clock: a timer variable   *)
(* holds the ticks elapsed since the Instant it models, saturating one     *)
(* tick past the duration it is compared with.                             *)
(***************************************************************************)
EXTENDS Integers, Sequences, FiniteSets, TLC

VARIABLES
    si,         \* the SerialInterface struct (lib.rs:183-199)
    inbound,    \* commands in flight on the receiver channel
    outbound,   \* every event sent on the sender channel, in order
    rcvAlive,   \* the consumer still holds the receiving end of outbound
    pc,         \* where the Interface's thread is
    args,       \* size / silence / timeout of the framing read in progress
    buffer,     \* local `buffer` of the framing read in progress
    elapsed,    \* ticks since `start` of the framing read in progress
    idle,       \* ticks since `last_data` of the framing read in progress
    rx,         \* bytes the device delivered that the port has not read yet
    wire,       \* every buffer written to the port, in order
    dev,        \* the operating system's view of the device
    ncmd,       \* commands the consumer has sent so far
    nbyte,      \* bytes the device has delivered so far
    last        \* what the step just taken did, if the Interface took it

vars == <<si, inbound, outbound, rcvAlive, pc, args, buffer, elapsed, idle,
          rx, wire, dev, ncmd, nbyte, last>>

----------------------------------------------------------------------------
(* Bounds of the model *)

MaxCmds == 2        \* commands the consumer sends in one run
MaxBytes == 2       \* bytes the device delivers in one run
SilenceTicks == 1   \* the silence gap, in ticks
TimeoutTicks == 2   \* the default response timeout, in ticks

ReadChunk == 24     \* clear_read_buffer's buffer, lib.rs:342

----------------------------------------------------------------------------
(* Option<T>: None is the empty sequence, Some(x) the one-element one *)

None == <<>>
Some(x) == <<x>>
is_some(o) == o # <<>>
unwrap(o) == o[1]

Min(a, b) == IF a < b THEN a ELSE b

(* enum Mode, lib.rs:52-64 *)
Mode == {"Master", "MasterStream", "Slave", "Sniff", "Stop"}

(* enum Status, lib.rs:42-48 *)
Status == {"Read", "Receipt", "Write", "WaitingResponse", "None"}

(* the five line settings of the struct, lib.rs:188-192 *)
LineKeys == {"baud_rate", "char_size", "parity", "stop_bits", "flow_control"}

(* each setting: 0 its default of new(), 1 another value *)
LineVals == {0, 1}

DevicePath == "/dev/ttyUSB0"

(* the payload the consumer sends *)
DataA == <<1, 2>>
Payloads == {DataA}

(* the byte the device puts on the line as its n-th *)
Line(n) == n

(* the timeouts the consumer sets: shorter than the default *)
Durations == 1..(TimeoutTicks - 1)

(* enum SerialMessage, lib.rs:67-176.  One record shape for every variant: *)
(* `s` a Mode, Status, path or setting name, `data` bytes, `n` a number,   *)
(* `err` a SerialInterfaceError, `ports` a list of port names; the fields  *)
(* a variant does not carry hold a fixed filler.                           *)
Msg(t, s, d, n, e, l) ==
    [type |-> t, s |-> s, data |-> d, n |-> n, err |-> e, ports |-> l]
M0(t) == Msg(t, "-", <<>>, 0, "-", <<>>)
ListPorts == M0("ListPorts")
AvailablePorts(l) == Msg("AvailablePorts", "-", <<>>, 0, "-", l)
SetPort(p) == Msg("SetPort", p, <<>>, 0, "-", <<>>)
SetLine(k, v) == Msg("SetLine", k, <<>>, v, "-", <<>>)
SetTimeout(d) == Msg("SetTimeout", "-", <<>>, d, "-", <<>>)
Connect == M0("Connect")
Disconnect == M0("Disconnect")
Send(d) == Msg("Send", "-", d, 0, "-", <<>>)
DataSent(d) == Msg("DataSent", "-", d, 0, "-", <<>>)
Receive(d) == Msg("Receive", "-", d, 0, "-", <<>>)
NoResponse == M0("NoResponse")
GetStatus == M0("GetStatus")
StatusMsg(s) == Msg("Status", s, <<>>, 0, "-", <<>>)
GetConnectionStatus == M0("GetConnectionStatus")
Connected(b) == Msg("Connected", "-", <<>>, IF b THEN 1 ELSE 0, "-", <<>>)
SetMode(m) == Msg("SetMode", m, <<>>, 0, "-", <<>>)
Error(e) == Msg("Error", "-", <<>>, 0, e, <<>>)
Ping == M0("Ping")
Pong == M0("Pong")

SettingCmds == {SetPort(DevicePath)} \cup {SetLine(k, 1) : k \in LineKeys}

(* the commands of spec section 6 the consumer may send *)
Commands ==
    {ListPorts, Connect, Disconnect, GetStatus, GetConnectionStatus, Ping}
    \cup SettingCmds
    \cup {SetTimeout(d) : d \in Durations}
    \cup {Send(d) : d \in Payloads}
    \cup {SetMode(m) : m \in Mode}

----------------------------------------------------------------------------
(* Results: Ok(w, v) and Err(w, e) carry the world the call left behind.   *)
(* A world w is [si, inb, out, alive, rx, wire, dev, os]: the state and    *)
(* what the operating system answers during the step (os).                *)

Ok(w, v) == [w |-> w, ok |-> TRUE, val |-> v, err |-> "-"]
Err(w, e) == [w |-> w, ok |-> FALSE, val |-> None, err |-> e]

(* the `?` operator: run F on the world of a successful r *)
AndThen(r, F(_)) == IF r.ok THEN F(r.w) ELSE r

(* new leaving silence unset *)
new_without_silence ==
    [path |-> None, mode |-> "Stop", status |-> "None", modbus_id |-> None,
     line |-> [k \in LineKeys |-> 0], port |-> None,
     silence |-> None, timeout |-> TimeoutTicks,
     receiver |-> FALSE, sender |-> FALSE]

(* SerialInterface::new, lib.rs:204-222 *)
new ==
    [path |-> None, mode |-> "Stop", status |-> "None", modbus_id |-> None,
     line |-> [k \in LineKeys |-> 0], port |-> None,
     silence |-> Some(SilenceTicks), timeout |-> TimeoutTicks,
     receiver |-> FALSE, sender |-> FALSE]

(* set_mode not looking at the port *)
set_mode_ignores_port(w, m) ==
    IF w.si.mode = "Stop"
    THEN IF w.si.modbus_id = None /\ m = "Slave"
         THEN Err(w, "SlaveModeNeedModbusID")
         ELSE Ok([w EXCEPT !.si.mode = m], None)
    ELSE Err(w, "StopToChangeSettings")

(* SerialInterface::set_mode, lib.rs:299-314 *)
set_mode(w, m) ==
    IF w.si.mode = "Stop"
    THEN IF w.si.modbus_id = None /\ m = "Slave"
         THEN Err(w, "SlaveModeNeedModbusID")
         ELSE IF w.si.modbus_id # None /\ is_some(w.si.port)
         THEN Err(w, "DisconnectToChangeSettings")
         ELSE Ok([w EXCEPT !.si.mode = m], None)
    ELSE Err(w, "StopToChangeSettings")

(* SerialInterface::open, lib.rs:773-799: w.os.open is what the operating *)
(* system answers to serial::open and set_timeout.                         *)
open(w) ==
    IF is_some(w.si.port) \/ w.si.mode # "Stop" THEN Err(w, "PortAlreadyOpen")
    ELSE IF w.si.path = None THEN Err(w, "PathMissing")
    ELSE IF w.os.open # "ok" THEN Err(w, w.os.open)
    ELSE Ok([w EXCEPT !.si.port = Some(unwrap(w.si.path))], None)

(* SerialInterface::close, lib.rs:802-809 *)
close(w) ==
    IF is_some(w.si.port)
    THEN Ok([w EXCEPT !.si.port = None, !.rx = <<>>], None)
    ELSE Err(w, "NoPortToClose")

(* SerialInterface::send_message, lib.rs:814-826 *)
send_message(w, msg) ==
    IF w.si.sender /\ w.alive
    THEN Ok([w EXCEPT !.out = Append(@, msg)], None)
    ELSE Err(w, "CannotSendMessage")

(* SerialInterface::list_ports, lib.rs:328-336: w.os.ports is what the    *)
(* operating system's enumeration answers, None when it fails.             *)
list_ports(w) ==
    IF is_some(w.os.ports) THEN Ok(w, unwrap(w.os.ports))
    ELSE Err(w, "CannotListPorts")

(* read_message, the commands handled in every mode, lib.rs:855-881 *)
IsGeneral(message) ==
    message.type \in {"GetConnectionStatus", "GetStatus", "SetMode",
                      "SetTimeout", "Ping"}

(* read_message's general arms with a GetStatus that ends the status *)
read_message_general_reset(w, message) ==
    CASE message.type = "GetConnectionStatus" ->
            send_message(w, Connected(is_some(w.si.port)))
      [] message.type = "GetStatus" ->
            send_message([w EXCEPT !.si.status = "None"],
                         StatusMsg(w.si.status))
      [] message.type = "SetMode" ->
            Ok(w, Some(SetMode(message.s)))
      [] message.type = "SetTimeout" ->
            Ok([w EXCEPT !.si.timeout = message.n], None)
      [] message.type = "Ping" ->
            send_message(w, Pong)


read_message_general(w, message) ==
    CASE message.type = "GetConnectionStatus" ->
            send_message(w, Connected(is_some(w.si.port)))
      [] message.type = "GetStatus" ->
            send_message(w, StatusMsg(w.si.status))
      [] message.type = "SetMode" ->
            Ok(w, Some(SetMode(message.s)))
      [] message.type = "SetTimeout" ->
            Ok([w EXCEPT !.si.timeout = message.n], None)
      [] message.type = "Ping" ->
            send_message(w, Pong)

(* read_message's Connect arm reporting the cause before Connected(false) *)
read_message_connect_cause_first(w) ==
    LET o == open(w) IN
    IF ~o.ok
    THEN AndThen(send_message(w, Error(o.err)),
                 LAMBDA v : send_message(v, Connected(FALSE)))
    ELSE send_message(o.w, Connected(TRUE))

(* read_message, the Connect arm, lib.rs:917-926 *)
read_message_connect(w) ==
    LET o == open(w) IN
    IF ~o.ok
    THEN AndThen(send_message(w, Connected(FALSE)),
                 LAMBDA v : send_message(v, Error(o.err)))
    ELSE send_message(o.w, Connected(TRUE))

(* read_message, the Disconnect arm, lib.rs:927-933 *)
read_message_disconnect(w) ==
    LET result == close(w) IN
    AndThen(send_message(result.w, Connected(FALSE)),
            LAMBDA v : IF ~result.ok THEN send_message(v, Error(result.err))
                       ELSE Ok(v, None))

(* read_message's Stop arms handing a Send back to the caller *)
read_message_stop_escalates(w, message) ==
    CASE message.type = "ListPorts" ->
            AndThen(list_ports(w),
                    LAMBDA v : send_message(v, AvailablePorts(unwrap(v.os.ports))))
      [] message.type = "SetPort" ->
            Ok([w EXCEPT !.si.path = Some(message.s)], None)
      [] message.type = "SetLine" ->
            Ok([w EXCEPT !.si.line[message.s] = message.n], None)
      [] message.type = "Connect" -> read_message_connect(w)
      [] message.type = "Disconnect" -> read_message_disconnect(w)
      [] message.type = "Send" -> Ok(w, Some(Send(message.data)))
      [] OTHER -> Ok(w, None)

(* read_message, the arms taken when mode == Stop, lib.rs:884-935 *)
read_message_stop(w, message) ==
    CASE message.type = "ListPorts" ->
            AndThen(list_ports(w),
                    LAMBDA v : send_message(v, AvailablePorts(unwrap(v.os.ports))))
      [] message.type = "SetPort" ->
            Ok([w EXCEPT !.si.path = Some(message.s)], None)
      [] message.type = "SetLine" ->
            Ok([w EXCEPT !.si.line[message.s] = message.n], None)
      [] message.type = "Connect" -> read_message_connect(w)
      [] message.type = "Disconnect" -> read_message_disconnect(w)
      [] OTHER -> Ok(w, None)

(* read_message_other with a SetPort arm that skips the mode check *)
read_message_other_stores(w, message) ==
    IF message.type = "Send" THEN Ok(w, Some(Send(message.data)))
    ELSE IF message.type = "SetPort"
    THEN Ok([w EXCEPT !.si.path = Some(message.s)], None)
    ELSE Ok(w, None)

(* read_message, what is left when mode != Stop, lib.rs:936-938 *)
read_message_other(w, message) ==
    IF message.type = "Send" THEN Ok(w, Some(Send(message.data)))
    ELSE Ok(w, None)

(* SerialInterface::read_message, lib.rs:850-944 *)
read_message(w0) ==
    IF ~w0.si.receiver \/ w0.inb = <<>> THEN Ok(w0, None)
    ELSE LET message == Head(w0.inb)
             w == [w0 EXCEPT !.inb = Tail(@)]
         IN  IF IsGeneral(message) THEN read_message_general(w, message)
             ELSE IF w.si.mode = "Stop"
             THEN read_message_stop(w, message)
             ELSE read_message_other(w, message)

(* the command a read_message call on w takes from the queue, if any *)
Polled(w) == IF w.si.receiver /\ w.inb # <<>> THEN Some(Head(w.inb)) ELSE None

----------------------------------------------------------------------------
(* Framing Engine *)

(* clear_read_buffer leaving the pending bytes in the port *)
clear_read_buffer_keeps(w) ==
    IF ~is_some(w.si.port) THEN Err(w, "PortNotOpened")
    ELSE IF w.dev = "gone" THEN Err(w, "CannotReadPort")
    ELSE Ok(w, 0)

(* One pass of clear_read_buffer's loop, lib.rs:339-367: the number of     *)
(* bytes the port's read returned; the loop ends when it is 0.             *)
clear_read_buffer(w) ==
    IF ~is_some(w.si.port) THEN Err(w, "PortNotOpened")
    ELSE IF w.dev = "gone" THEN Err(w, "CannotReadPort")
    ELSE LET ret == Min(Len(w.rx), ReadChunk) IN
         Ok([w EXCEPT !.rx = SubSeq(@, ret + 1, Len(@))], ret)

(* read_byte leaving the byte it returns in the port's input *)
read_byte_peeks(w) ==
    IF ~is_some(w.si.port) THEN Err(w, "PortNotOpened")
    ELSE IF w.dev = "gone" THEN Err(w, "CannotReadPort")
    ELSE IF w.rx = <<>> THEN Ok(w, None)
    ELSE Ok(w, Some(Head(w.rx)))

(* SerialInterface::read_byte, lib.rs:370-404 *)
read_byte(w) ==
    IF ~is_some(w.si.port) THEN Err(w, "PortNotOpened")
    ELSE IF w.dev = "gone" THEN Err(w, "CannotReadPort")
    ELSE IF w.rx = <<>> THEN Ok(w, None)
    ELSE Ok([w EXCEPT !.rx = Tail(@)], Some(Head(w.rx)))

(* write reporting DataSent without looking at the port *)
write_without_port(w, data) ==
    IF is_some(w.si.port) /\ w.dev = "gone" THEN Err(w, "CannotWritePort")
    ELSE LET n == IF w.os.short /\ data # <<>> THEN Len(data) - 1
                  ELSE Len(data) IN
         send_message([w EXCEPT !.wire = Append(@, SubSeq(data, 1, n))],
                      DataSent(data))

(* SerialInterface::write, lib.rs:1053-1068.  The port's write returns the *)
(* number of bytes it accepted, which the code does not look at:           *)
(* w.os.short is TRUE when it accepts one byte less than data holds.       *)
write(w, data) ==
    IF ~is_some(w.si.port) THEN Err(w, "PortNotOpened")
    ELSE IF w.dev = "gone" THEN Err(w, "CannotWritePort")
    ELSE LET n == IF w.os.short /\ data # <<>> THEN Len(data) - 1
                  ELSE Len(data) IN
         send_message([w EXCEPT !.wire = Append(@, SubSeq(data, 1, n))],
                      DataSent(data))

(* The end of one pass of a framing loop: the read goes on (done = FALSE)  *)
(* or returns res; `why` names the gate that ended it.                     *)
Going(w, buf, idl) ==
    [w |-> w, buffer |-> buf, idle |-> idl, done |-> FALSE,
     res |-> Ok(w, None), why |-> "-"]
Done(res, buf, why) ==
    [w |-> res.w, buffer |-> buf, idle |-> 0, done |-> TRUE,
     res |-> res, why |-> why]

(* the end of a read returning without its event *)
emit_and_return_mute(w, msg) ==
    Ok([w EXCEPT !.si.status = "None"], None)

(* send an event, set status None, return Err(e) or Ok(None):              *)
(* lib.rs:439-446, 463-470, 478-494                                        *)
emit_and_return(w, msg) ==
    LET result == send_message(w, msg)
        v == [result.w EXCEPT !.si.status = "None"]
    IN  IF result.ok THEN Ok(v, None) ELSE Err(v, result.err)

(* check_timeout answering NoResponse whatever the buffer holds *)
check_timeout_no_response(w, a, buf, el, idl) ==
    IF is_some(a.timeout) /\ el > unwrap(a.timeout)
    THEN Done(emit_and_return(w, NoResponse), buf, "timeout")
    ELSE Going(w, buf, idl)

(* the timeout gate measuring against the stored timeout *)
check_timeout_stored(w, a, buf, el, idl) ==
    IF is_some(a.timeout) /\ el > w.si.timeout
    THEN IF buf # <<>>
         THEN Done(emit_and_return(w, Receive(buf)), buf, "timeout")
         ELSE Done(emit_and_return(w, NoResponse), buf, "timeout")
    ELSE Going(w, buf, idl)

(* the timeout gate, lib.rs:474-497 *)
check_timeout(w, a, buf, el, idl) ==
    IF is_some(a.timeout) /\ el > unwrap(a.timeout)
    THEN IF buf # <<>>
         THEN Done(emit_and_return(w, Receive(buf)), buf, "timeout")
         ELSE Done(emit_and_return(w, NoResponse), buf, "timeout")
    ELSE Going(w, buf, idl)

(* the arm of a pass that received a byte, lib.rs:429-448 *)
read_received(w0, a, buf0, el, data) ==
    LET w == [w0 EXCEPT !.si.status = "Receipt"]
        buf == Append(buf0, data)
    IN  IF is_some(a.size) /\ Len(buf) = unwrap(a.size)
        THEN Done(emit_and_return(w, Receive(buf)), buf, "size")
        ELSE check_timeout(w, a, buf, el, 0)

(* the silent arm polling inbound whatever the buffer holds *)
read_silent_always_polls(w, a, buf, el, idl) ==
    LET rm == read_message(w) IN
    IF ~rm.ok THEN Done(rm, buf, "error")
    ELSE IF is_some(rm.val) THEN Done(rm, buf, "message")
    ELSE IF buf # <<>> /\ idl > unwrap(a.silence)
         THEN Done(emit_and_return(rm.w, Receive(buf)), buf, "silence")
         ELSE check_timeout(rm.w, a, buf, el, IF buf = <<>> THEN 0 ELSE idl)

(* the arm of a pass that received nothing, silence set, lib.rs:449-473 *)
read_silent(w, a, buf, el, idl) ==
    IF buf = <<>>
    THEN LET rm == read_message(w) IN
         IF ~rm.ok THEN Done(rm, buf, "error")
         ELSE IF is_some(rm.val) THEN Done(rm, buf, "message")
         ELSE check_timeout(rm.w, a, buf, el, 0)
    ELSE IF idl > unwrap(a.silence)
         THEN Done(emit_and_return(w, Receive(buf)), buf, "silence")
         ELSE check_timeout(w, a, buf, el, idl)

(* One pass of the loop of                                                 *)
(* read_until_size_or_silence_or_timeout_or_message, lib.rs:426-498        *)
read_until_pass(w, a, buf, el, idl) ==
    LET result == read_byte(w) IN
    IF ~result.ok THEN Done(result, buf, "error")
    ELSE IF is_some(result.val)
    THEN read_received(result.w, a, buf, el, unwrap(result.val))
    ELSE IF is_some(a.silence) THEN read_silent(result.w, a, buf, el, idl)
    ELSE check_timeout(result.w, a, buf, el, idl)

----------------------------------------------------------------------------
(* CRC-16 and the stream scanner *)

Pow2(n) == 2 ^ n

(* bitwise exclusive or of two 16-bit values *)
RECURSIVE XorBits(_, _, _)
XorBits(a, b, n) ==
    IF n = 0 THEN 0
    ELSE (((a % 2) + (b % 2)) % 2) + 2 * XorBits(a \div 2, b \div 2, n - 1)

Xor16(a, b) == XorBits(a, b, 16)

(* the inner loop of crc16, lib.rs:604-614 *)
RECURSIVE crc_shift(_, _)
crc_shift(crc, n) ==
    IF n = 0 THEN crc
    ELSE IF crc % 2 # 0 THEN crc_shift(Xor16(crc \div 2, 40961), n - 1)
         ELSE crc_shift(crc \div 2, n - 1)

(* the outer loop of crc16, lib.rs:601-615 *)
RECURSIVE crc_fold(_, _, _)
crc_fold(crc, data, i) ==
    IF i > Len(data) THEN crc
    ELSE crc_fold(crc_shift(Xor16(crc, data[i]), 8), data, i + 1)

(* crc16 returning the register as computed, bytes not swapped *)
crc16_unswapped(data) == crc_fold(65535, data, 1)

(* SerialInterface::crc16, lib.rs:600-617; the result is a u16 *)
crc16(data) ==
    LET crc == crc_fold(65535, data, 1) IN
    ((crc * 256) % 65536) + (crc \div 256)

(* check_crc comparing the frame's last two bytes low byte first *)
check_crc_low_first(frame) ==
    IF Len(frame) > 4
    THEN LET crc == crc16(SubSeq(frame, 1, Len(frame) - 2))
             expected_crc == <<crc % 256, crc \div 256>>
         IN  expected_crc = SubSeq(frame, Len(frame) - 1, Len(frame))
    ELSE FALSE

(* SerialInterface::check_crc, lib.rs:619-630 *)
check_crc(frame) ==
    IF Len(frame) > 4
    THEN LET crc == crc16(SubSeq(frame, 1, Len(frame) - 2))
             expected_crc == <<crc \div 256, crc % 256>>
         IN  expected_crc = SubSeq(frame, Len(frame) - 1, Len(frame))
    ELSE FALSE

(* buffer[i..i + window_size], i counted from 0 *)
Window(buf, i, window_size) == SubSeq(buf, i + 1, i + window_size)

(* the loops of try_decode_buffer from (window_size, i) on, lib.rs:635-653 *)
RECURSIVE decode_from(_, _, _)
decode_from(buf, window_size, i) ==
    IF window_size > Len(buf) THEN None
    ELSE IF i > Len(buf) - window_size
    THEN decode_from(buf, window_size + 1, 0)
    ELSE IF check_crc(Window(buf, i, window_size))
    THEN Some(Window(buf, i, window_size))
    ELSE IF Len(buf) = window_size THEN None
    ELSE LET j == Len(buf) - i - window_size IN
         IF check_crc(Window(buf, j, window_size))
         THEN Some(Window(buf, j, window_size))
         ELSE decode_from(buf, window_size, i + 1)

(* try_decode_buffer trying the whole buffer before the windows *)
try_decode_buffer_whole_first(buf) ==
    IF check_crc(buf) THEN Some(buf) ELSE decode_from(buf, 5, 0)

(* SerialInterface::try_decode_buffer, lib.rs:632-654 *)
try_decode_buffer(buf) == decode_from(buf, 5, 0)

(* read_stream's pass answering a timeout with the bytes it has *)
read_stream_pass_partial(w0, a, buf0, el) ==
    LET result == read_byte(w0) IN
    IF ~result.ok THEN Done(result, buf0, "error")
    ELSE LET got == is_some(result.val)
             w == IF got THEN [result.w EXCEPT !.si.status = "Receipt"]
                  ELSE result.w
             buf == IF got THEN Append(buf0, unwrap(result.val)) ELSE buf0
             decoded == IF got THEN try_decode_buffer(buf) ELSE None
         IN  IF is_some(decoded)
             THEN Done(Ok(w, Some(Receive(unwrap(decoded)))), buf, "frame")
             ELSE IF el > unwrap(a.timeout)
             THEN Done(Ok(w, Some(IF buf # <<>> THEN Receive(buf)
                                  ELSE NoResponse)), buf, "timeout")
             ELSE Going(w, buf, 0)

(* read_stream's pass polling inbound as the other framing read does *)
read_stream_pass_polls(w0, a, buf0, el) ==
    LET result == read_byte(read_message(w0).w) IN
    IF ~result.ok THEN Done(result, buf0, "error")
    ELSE LET got == is_some(result.val)
             w == IF got THEN [result.w EXCEPT !.si.status = "Receipt"]
                  ELSE result.w
             buf == IF got THEN Append(buf0, unwrap(result.val)) ELSE buf0
             decoded == IF got THEN try_decode_buffer(buf) ELSE None
         IN  IF is_some(decoded)
             THEN Done(Ok(w, Some(Receive(unwrap(decoded)))), buf, "frame")
             ELSE IF el > unwrap(a.timeout)
             THEN Done(Ok(w, Some(NoResponse)), buf, "timeout")
             ELSE Going(w, buf, 0)

(* read_stream's pass running the scanner after every second byte *)
read_stream_pass_every_other(w0, a, buf0, el) ==
    LET result == read_byte(w0) IN
    IF ~result.ok THEN Done(result, buf0, "error")
    ELSE LET got == is_some(result.val)
             w == IF got THEN [result.w EXCEPT !.si.status = "Receipt"]
                  ELSE result.w
             buf == IF got THEN Append(buf0, unwrap(result.val)) ELSE buf0
             decoded == IF got /\ Len(buf) % 2 = 1
                        THEN try_decode_buffer(buf) ELSE None
         IN  IF is_some(decoded)
             THEN Done(Ok(w, Some(Receive(unwrap(decoded)))), buf, "frame")
             ELSE IF el > unwrap(a.timeout)
             THEN Done(Ok(w, Some(NoResponse)), buf, "timeout")
             ELSE Going(w, buf, 0)

(* One pass of read_stream's loop, lib.rs:665-683; it returns the message  *)
(* itself, which its caller sends.                                         *)
read_stream_pass(w0, a, buf0, el) ==
    LET result == read_byte(w0) IN
    IF ~result.ok THEN Done(result, buf0, "error")
    ELSE LET got == is_some(result.val)
             w == IF got THEN [result.w EXCEPT !.si.status = "Receipt"]
                  ELSE result.w
             buf == IF got THEN Append(buf0, unwrap(result.val)) ELSE buf0
             decoded == IF got THEN try_decode_buffer(buf) ELSE None
         IN  IF is_some(decoded)
             THEN Done(Ok(w, Some(Receive(unwrap(decoded)))), buf, "frame")
             ELSE IF el > unwrap(a.timeout)
             THEN Done(Ok(w, Some(NoResponse)), buf, "timeout")
             ELSE Going(w, buf, 0)

----------------------------------------------------------------------------
(* Mode behaviours.  A step of a behaviour ends in a Step record: the      *)
(* world it leaves, where the thread goes on (pc, with the arguments of    *)
(* the framing read it starts), what the behaviour returned to start       *)
(* ("-" while it has not returned, "Stop" for Ok(Some(Mode::Stop)), "Err"  *)
(* for Err(e)) and the error raised in the step, if any.                   *)

NoArgs == [size |-> None, silence |-> None, timeout |-> None]

Loop(w, e) == [w |-> w, pc |-> "idle", args |-> NoArgs, ret |-> "-", err |-> e]
Read(w, a) == [w |-> w, pc |-> "clear", args |-> a, ret |-> "-", err |-> "-"]
Return(w, ret, e) ==
    [w |-> w, pc |-> "idle", args |-> NoArgs, ret |-> ret, err |-> e]

SetStatus(w, st) == [w EXCEPT !.si.status = st]

(* read_until_silence, lib.rs:731-736 *)
read_until_silence(silence) ==
    [size |-> None, silence |-> Some(silence), timeout |-> None]

(* read_until_silence_or_timeout, lib.rs:752-758 *)
read_until_silence_or_timeout(silence, timeout) ==
    [size |-> None, silence |-> Some(silence), timeout |-> Some(timeout)]

(* read_stream's argument, lib.rs:660 *)
read_stream(timeout) ==
    [size |-> None, silence |-> None, timeout |-> Some(timeout)]

(* write_read up to its loop, lib.rs:1189-1197 *)
write_read(w, data, timeout) ==
    IF ~is_some(w.si.silence) THEN Loop(w, "SilenceMissing")
    ELSE LET r == write(SetStatus(w, "Write"), data) IN
         IF ~r.ok THEN Loop(SetStatus(r.w, "None"), r.err)
         ELSE Read(SetStatus(r.w, "WaitingResponse"),
                   read_until_silence_or_timeout(unwrap(w.si.silence), timeout))

(* write_read_stream up to read_stream, lib.rs:1299-1306 *)
write_read_stream(w, data, timeout) ==
    LET r == write(SetStatus(w, "Write"), data) IN
    IF ~r.ok THEN Loop(SetStatus(r.w, "None"), r.err)
    ELSE Read(SetStatus(r.w, "WaitingResponse"), read_stream(timeout))

(* run_master_set_mode installing the requested mode itself *)
run_master_set_mode_direct(w, mode) ==
    IF mode = "Stop" THEN Return(w, "Stop", "-")
    ELSE Loop([w EXCEPT !.si.mode = mode], "-")

(* run_master's SetMode arm, lib.rs:1453-1457 *)
run_master_set_mode(w, mode) ==
    IF mode = "Stop" THEN Return(w, "Stop", "-") ELSE Loop(w, "-")

(* One pass of run_master's loop, lib.rs:1448-1480 *)
run_master(w0) ==
    LET rm == read_message(w0) IN
    IF ~rm.ok THEN Loop(rm.w, rm.err)
    ELSE IF ~is_some(rm.val) THEN Loop(rm.w, "-")
    ELSE LET msg == unwrap(rm.val) IN
         IF msg.type = "SetMode" THEN run_master_set_mode(rm.w, msg.s)
         ELSE IF msg.type = "Send"
         THEN write_read(rm.w, msg.data, rm.w.si.timeout)
         ELSE Loop(rm.w, "-")

(* One pass of run_master_stream's loop, lib.rs:1530-1555 *)
run_master_stream(w0) ==
    LET rm == read_message(w0) IN
    IF ~rm.ok THEN Loop(rm.w, rm.err)
    ELSE IF ~is_some(rm.val) THEN Loop(rm.w, "-")
    ELSE LET msg == unwrap(rm.val) IN
         IF msg.type = "SetMode" THEN run_master_set_mode(rm.w, msg.s)
         ELSE IF msg.type = "Send"
         THEN write_read_stream(rm.w, msg.data, rm.w.si.timeout)
         ELSE Loop(rm.w, "-")

(* write_read's loop going back to its read on a Send without a word *)
write_read_escalated_quiet(w, a, msg) ==
    IF msg.type = "SetMode" /\ msg.s = "Stop"
    THEN Return(SetStatus(w, "None"), "Stop", "-")
    ELSE IF msg.type = "SetMode" /\ msg.s \in {"Slave", "Sniff"}
    THEN LET r == send_message(w, Error("StopModeBeforeChange")) IN
         IF r.ok THEN Read(r.w, a) ELSE Loop(r.w, r.err)
    ELSE Read(w, a)

(* write_read's loop once its read has returned res, lib.rs:1199-1225, and *)
(* run_master's handling of what write_read returns, lib.rs:1459-1468      *)
write_read_escalated(w, a, msg) ==
    IF msg.type = "Send"
    THEN LET r == send_message(w, Error("WaitingForResponse")) IN
         IF r.ok THEN Read(r.w, a) ELSE Loop(r.w, r.err)
    ELSE IF msg.type = "SetMode" /\ msg.s = "Stop"
    THEN Return(SetStatus(w, "None"), "Stop", "-")
    ELSE IF msg.type = "SetMode" /\ msg.s \in {"Slave", "Sniff"}
    THEN LET r == send_message(w, Error("StopModeBeforeChange")) IN
         IF r.ok THEN Read(r.w, a) ELSE Loop(r.w, r.err)
    ELSE Read(w, a)

write_read_returned(res, a) ==
    IF ~res.ok THEN Loop(res.w, res.err)
    ELSE IF is_some(res.val) THEN write_read_escalated(res.w, a, unwrap(res.val))
    ELSE Loop(SetStatus(res.w, "None"), "-")

(* write_read_stream of the async-channel build once read_stream has       *)
(* returned res, lib.rs:1337-1347: send_message is an async fn there and   *)
(* its future is dropped without being awaited, so nothing is sent.        *)
write_read_stream_returned_async(res) ==
    IF ~res.ok THEN Loop(SetStatus(res.w, "None"), res.err)
    ELSE Loop(SetStatus(res.w, "None"), "-")

(* write_read_stream once read_stream has returned res, lib.rs:1306-1316:  *)
(* the outcome of sending the message is dropped.                          *)
write_read_stream_returned(res) ==
    IF ~res.ok THEN Loop(SetStatus(res.w, "None"), res.err)
    ELSE Loop(SetStatus(send_message(res.w, unwrap(res.val)).w, "None"), "-")

(* wait_for_request up to its read, lib.rs:1357-1360, called by run_slave  *)
wait_for_request(w) ==
    IF ~is_some(w.si.silence) THEN Loop(w, "SilenceMissing")
    ELSE Read(SetStatus(w, "Read"), read_until_silence(unwrap(w.si.silence)))

(* wait_for_request once its read has returned res, lib.rs:1361-1389, and  *)
(* run_slave's handling of what it returns, lib.rs:1600-1609               *)
wait_for_request_returned(res0, a) ==
    LET res == [res0 EXCEPT !.w = SetStatus(@, "None")] IN
    IF ~res.ok THEN Loop(res.w, res.err)
    ELSE IF ~is_some(res.val) THEN Loop(res.w, "-")
    ELSE LET msg == unwrap(res.val) IN
         IF msg.type = "Send" THEN Loop(res.w, "-")
         ELSE IF msg.type = "SetMode" /\ msg.s = "Stop"
         THEN Return(res.w, "Stop", "-")
         ELSE IF msg.type = "SetMode"
         THEN LET r == send_message(res.w, Error("StopModeBeforeChange")) IN
              IF r.ok THEN Read(SetStatus(r.w, "Read"), a) ELSE Loop(r.w, r.err)
         ELSE Read(SetStatus(res.w, "Read"), a)

(* listen up to its read, lib.rs:1099-1102, called by run_sniff *)
listen(w) ==
    IF ~is_some(w.si.silence) THEN Return(w, "Err", "SilenceMissing")
    ELSE Read(SetStatus(w, "Read"), read_until_silence(unwrap(w.si.silence)))

(* listen's Send arm, lib.rs:1104-1111 *)
listen_send(w, data) ==
    LET wr == write(SetStatus(w, "Write"), data)
        v == SetStatus(wr.w, "None")
    IN  IF wr.ok THEN listen(v)
        ELSE LET r == send_message(v, Error(wr.err)) IN
             IF r.ok THEN [listen(r.w) EXCEPT !.err = wr.err]
             ELSE Return(r.w, "Err", r.err)

(* listen's SetMode arm refusing only Master *)
listen_set_mode_lenient(w, mode) ==
    IF mode = "Master"
    THEN LET r == send_message(w, Error("StopModeBeforeChange")) IN
         IF r.ok THEN listen(r.w) ELSE Return(r.w, "Err", r.err)
    ELSE IF mode = "Stop" THEN Return(SetStatus(w, "None"), "Stop", "-")
    ELSE listen(w)

(* listen's SetMode arm, lib.rs:1112-1121 *)
listen_set_mode(w, mode) ==
    IF mode # "Stop" /\ mode # "Sniff"
    THEN LET r == send_message(w, Error("StopModeBeforeChange")) IN
         IF r.ok THEN listen(r.w) ELSE Return(r.w, "Err", r.err)
    ELSE IF mode = "Stop" THEN Return(SetStatus(w, "None"), "Stop", "-")
    ELSE listen(w)

(* listen once its read has returned res, lib.rs:1102-1127, and run_sniff's *)
(* handling of what listen returns, lib.rs:1639-1649                        *)
listen_returned(res) ==
    IF ~res.ok THEN Return(res.w, "Err", res.err)
    ELSE IF ~is_some(res.val) THEN Loop(SetStatus(res.w, "None"), "-")
    ELSE LET msg == unwrap(res.val) IN
         IF msg.type = "Send" THEN listen_send(res.w, msg.data)
         ELSE IF msg.type = "SetMode" THEN listen_set_mode(res.w, msg.s)
         ELSE listen(res.w)

(* start's handling of what a behaviour returned, lib.rs:1697-1760 *)
start_returned(w, ret) ==
    IF ret \in {"Stop", "Err"} THEN [w EXCEPT !.si.mode = "Stop"] ELSE w

(* start's Stop arm, lib.rs:1683-1696 *)
start_stop(w0) ==
    LET result == read_message(w0) IN
    IF result.ok /\ is_some(result.val) /\ unwrap(result.val).type = "SetMode"
    THEN Loop([result.w EXCEPT !.si.mode = unwrap(result.val).s], "-")
    ELSE Loop(result.w, result.err)

----------------------------------------------------------------------------
(* The state machine *)

(* what the operating system may answer to a port enumeration, to an open  *)
(* (serial::open, then set_timeout) and to a write during one step         *)
PortLists == {None, Some(<<DevicePath>>)}
OpenOutcomes == {"ok", "CannotOpenPort", "CannotSetTimeout"}
Os(ports, o, short) == [ports |-> ports, open |-> o, short |-> short]
OsQuiet == Os(None, "CannotOpenPort", FALSE)
OsOpen(o) == Os(None, o, FALSE)
OsWrite(short) == Os(None, "CannotOpenPort", short)

(* an unplugged device cannot be opened *)
CanAnswer(o) == dev = "gone" => o # "ok"

World(os) ==
    [si |-> si, inb |-> inbound, out |-> outbound, alive |-> rcvAlive,
     rx |-> rx, wire |-> wire, dev |-> dev, os |-> os]

NoLast ==
    [act |-> "-", cmd |-> None, mode0 |-> "Stop", err |-> "-", why |-> "-",
     ret |-> "-"]

(* new() and the builder calls receiver(), sender() and, or not, path()   *)
(* and modbus_id(), lib.rs:204-295                                         *)
Built ==
    {[new EXCEPT !.receiver = TRUE, !.sender = TRUE,
                 !.path = p, !.modbus_id = id] :
        p \in {None, Some(DevicePath)}, id \in {None, Some(1)}}

Init ==
    /\ si \in Built
    /\ inbound = <<>>
    /\ outbound = <<>>
    /\ rcvAlive = TRUE
    /\ pc = "new"
    /\ args = NoArgs
    /\ buffer = <<>>
    /\ elapsed = 0
    /\ idle = 0
    /\ rx = <<>>
    /\ wire = <<>>
    /\ dev = "ok"
    /\ ncmd = 0
    /\ nbyte = 0
    /\ last = NoLast

(* the world w becomes the state; the thread's locals are left to the caller *)
Install(w) ==
    /\ si' = w.si
    /\ inbound' = w.inb
    /\ outbound' = w.out
    /\ rx' = w.rx
    /\ wire' = w.wire
    /\ UNCHANGED <<rcvAlive, dev, ncmd, nbyte>>

(* the command the step to world w took from the queue, if any *)
Taken(w) == IF w.inb # inbound THEN Some(Head(inbound)) ELSE None

(* The owner calls a public method before it starts the Interface *)
ApiCall(r, name) ==
    /\ pc = "new"
    /\ Install(r.w)
    /\ last' = [NoLast EXCEPT !.act = name, !.err = r.err, !.mode0 = si.mode]
    /\ UNCHANGED <<pc, args, buffer, elapsed, idle>>

ApiOpen(o) == CanAnswer(o) /\ ApiCall(open(World(OsOpen(o))), "open")
ApiClose == ApiCall(close(World(OsQuiet)), "close")
ApiSetMode(m) == ApiCall(set_mode(World(OsQuiet), m), "set_mode")

(* start is called, lib.rs:1678 *)
Start ==
    /\ pc = "new"
    /\ pc' = "idle"
    /\ last' = NoLast
    /\ UNCHANGED <<si, inbound, outbound, rcvAlive, args, buffer, elapsed,
                   idle, rx, wire, dev, ncmd, nbyte>>

(* A step of a behaviour ended in st: start handles what it returned *)
Behave(st, name, why) ==
    /\ Install(start_returned(st.w, st.ret))
    /\ pc' = st.pc
    /\ args' = st.args
    /\ last' = [act |-> name, cmd |-> Taken(st.w), mode0 |-> si.mode,
                err |-> st.err, why |-> why, ret |-> st.ret]

(* what the behaviour of the current mode does once its read returned res *)
Returned(res) ==
    CASE si.mode = "Master" -> write_read_returned(res, args)
      [] si.mode = "MasterStream" -> write_read_stream_returned(res)
      [] si.mode = "Slave" -> wait_for_request_returned(res, args)
      [] si.mode = "Sniff" -> listen_returned(res)

(* one iteration of start's loop in mode Stop *)
StopStep(ports, o) ==
    /\ pc = "idle" /\ si.mode = "Stop"
    /\ CanAnswer(o)
    /\ Behave(start_stop(World(Os(ports, o, FALSE))), "start_stop", "-")
    /\ UNCHANGED <<buffer, elapsed, idle>>

(* one pass of run_master's loop *)
MasterStep(short) ==
    /\ pc = "idle" /\ si.mode = "Master"
    /\ Behave(run_master(World(OsWrite(short))), "run_master", "-")
    /\ UNCHANGED <<buffer, elapsed, idle>>

(* one pass of run_master_stream's loop *)
MasterStreamStep(short) ==
    /\ pc = "idle" /\ si.mode = "MasterStream"
    /\ Behave(run_master_stream(World(OsWrite(short))), "run_master_stream", "-")
    /\ UNCHANGED <<buffer, elapsed, idle>>

(* run_slave calls wait_for_request *)
SlaveStep ==
    /\ pc = "idle" /\ si.mode = "Slave"
    /\ Behave(wait_for_request(World(OsQuiet)), "run_slave", "-")
    /\ UNCHANGED <<buffer, elapsed, idle>>

(* run_sniff calls listen *)
SniffStep ==
    /\ pc = "idle" /\ si.mode = "Sniff"
    /\ Behave(listen(World(OsQuiet)), "run_sniff", "-")
    /\ UNCHANGED <<buffer, elapsed, idle>>

(* the head of a framing read: one pass of clear_read_buffer's loop, then  *)
(* lib.rs:418-424 (661-663 for read_stream)                                *)
ClearStep ==
    /\ pc = "clear"
    /\ LET r == clear_read_buffer(World(OsQuiet)) IN
       IF ~r.ok
       THEN /\ Behave(Returned(r), "clear", "error")
            /\ UNCHANGED <<buffer, elapsed, idle>>
       ELSE IF r.val > 0
       THEN /\ Install(r.w)
            /\ last' = [NoLast EXCEPT !.act = "clear", !.mode0 = si.mode]
            /\ UNCHANGED <<pc, args, buffer, elapsed, idle>>
       ELSE IF args = NoArgs
       THEN /\ Behave(Returned(Err(r.w, "WrongReadArguments")),
                      "clear", "error")
            /\ UNCHANGED <<buffer, elapsed, idle>>
       ELSE /\ Install(r.w)
            /\ pc' = IF si.mode = "MasterStream" THEN "stream" ELSE "read"
            /\ buffer' = <<>>
            /\ elapsed' = 0
            /\ idle' = 0
            /\ last' = [NoLast EXCEPT !.act = "clear", !.mode0 = si.mode]
            /\ UNCHANGED args

(* a pass p of a framing loop: the read goes on, or its caller handles     *)
(* what it returned                                                        *)
Pass(p, name) ==
    /\ buffer' = p.buffer
    /\ idle' = p.idle
    /\ UNCHANGED elapsed
    /\ IF p.done
       THEN Behave(Returned(p.res), name, p.why)
       ELSE /\ Install(p.w)
            /\ last' = [NoLast EXCEPT !.act = name, !.cmd = Taken(p.w),
                                      !.mode0 = si.mode]
            /\ UNCHANGED <<pc, args>>

(* one pass of the loop of read_until_size_or_silence_or_timeout_or_message *)
ReadStep(short) ==
    /\ pc = "read"
    /\ Pass(read_until_pass(World(OsWrite(short)), args, buffer, elapsed, idle),
            "read")

(* one pass of the loop of read_stream *)
StreamStep ==
    /\ pc = "stream"
    /\ Pass(read_stream_pass(World(OsQuiet), args, buffer, elapsed), "stream")

(* the consumer sends a command *)
Put(c) ==
    /\ pc # "new"
    /\ ncmd < MaxCmds
    /\ inbound' = Append(inbound, c)
    /\ ncmd' = ncmd + 1
    /\ UNCHANGED <<si, outbound, rcvAlive, pc, args, buffer, elapsed, idle,
                   rx, wire, dev, nbyte>>
    /\ last' = NoLast

(* the device puts its next byte on the line *)
Deliver ==
    /\ pc # "new"
    /\ is_some(si.port) /\ dev = "ok"
    /\ nbyte < MaxBytes
    /\ rx' = Append(rx, Line(nbyte + 1))
    /\ nbyte' = nbyte + 1
    /\ UNCHANGED <<si, inbound, outbound, rcvAlive, pc, args, buffer,
                   elapsed, idle, wire, dev, ncmd>>
    /\ last' = NoLast

(* time passes while a framing loop runs *)
Tick ==
    /\ pc \in {"read", "stream"}
    /\ elapsed' = IF is_some(args.timeout)
                  THEN Min(elapsed + 1, unwrap(args.timeout) + 1) ELSE elapsed
    /\ idle' = IF is_some(args.silence) /\ buffer # <<>>
               THEN Min(idle + 1, unwrap(args.silence) + 1) ELSE idle
    /\ <<elapsed', idle'>> # <<elapsed, idle>>
    /\ UNCHANGED <<si, inbound, outbound, rcvAlive, pc, args, buffer, rx,
                   wire, dev, ncmd, nbyte>>
    /\ last' = NoLast

(* the device is unplugged while a behaviour uses the port *)
Unplug ==
    /\ pc # "new" /\ si.mode # "Stop"
    /\ is_some(si.port) /\ dev = "ok"
    /\ dev' = "gone"
    /\ UNCHANGED <<si, inbound, outbound, rcvAlive, pc, args, buffer,
                   elapsed, idle, rx, wire, ncmd, nbyte>>
    /\ last' = NoLast

(* the consumer drops the receiving end of the outbound channel *)
Hangup ==
    /\ pc # "new" /\ rcvAlive
    /\ rcvAlive' = FALSE
    /\ UNCHANGED <<si, inbound, outbound, pc, args, buffer, elapsed, idle,
                   rx, wire, dev, ncmd, nbyte>>
    /\ last' = NoLast

Interface ==
    \/ \E ports \in PortLists, o \in OpenOutcomes : StopStep(ports, o)
    \/ \E short \in BOOLEAN : MasterStep(short)
    \/ \E short \in BOOLEAN : MasterStreamStep(short)
    \/ SlaveStep
    \/ SniffStep
    \/ ClearStep
    \/ \E short \in BOOLEAN : ReadStep(short)
    \/ StreamStep

Owner ==
    \/ \E o \in OpenOutcomes : ApiOpen(o)
    \/ ApiClose
    \/ \E m \in Mode : ApiSetMode(m)
    \/ Start

Environment ==
    \/ \E c \in Commands : Put(c)
    \/ Deliver
    \/ Tick
    \/ Unplug
    \/ Hangup

Next == Owner \/ Interface \/ Environment

Spec == Init /\ [][Next]_vars

----------------------------------------------------------------------------
(* What the step just taken did *)

(* the step took command c from the inbound queue *)
Took(t) == is_some(last.cmd) /\ unwrap(last.cmd).type = t
TookCmd(c) == last.cmd = Some(c)

NonStop == Mode \ {"Stop"}

----------------------------------------------------------------------------
(* C1: every change of mode has Stop as its source or its target, and in   *)
(* Stop a processed SetMode(m) installs m.                                 *)
C1_ModeChangesThroughStop ==
    [][/\ si'.mode # si.mode => (si.mode = "Stop" \/ si'.mode = "Stop")
       /\ (pc = "idle" /\ si.mode = "Stop" /\ is_some(last'.cmd)
           /\ unwrap(last'.cmd).type = "SetMode")
          => si'.mode = unwrap(last'.cmd).s]_vars

(* start left a behaviour for Stop, after a SetMode(Stop) it processed *)
C1_Witness ==
    /\ last.mode0 \in NonStop /\ TookCmd(SetMode("Stop"))
    /\ last.ret = "Stop" /\ si.mode = "Stop"

(* C2: a settings command is stored when it is processed in Stop, and      *)
(* leaves path and line settings as they are in any other mode.            *)
C2_SettingsOnlyInStop ==
    [][(is_some(last'.cmd) /\ unwrap(last'.cmd).type \in {"SetPort", "SetLine"})
       => LET c == unwrap(last'.cmd) IN
          IF si.mode = "Stop"
          THEN /\ c.type = "SetPort" =>
                    si'.path = Some(c.s) /\ si'.line = si.line
               /\ c.type = "SetLine" =>
                    /\ si'.line = [si.line EXCEPT ![c.s] = c.n]
                    /\ si'.path = si.path
          ELSE si'.path = si.path /\ si'.line = si.line]_vars

(* a SetLine was processed in a mode other than Stop and is not stored *)
C2_Witness ==
    /\ Took("SetLine") /\ last.mode0 \in NonStop
    /\ si.line[unwrap(last.cmd).s] # unwrap(last.cmd).n

----------------------------------------------------------------------------
(* The Interface's thread is never starved and the clock goes on: start's  *)
(* loop and the behaviours' loops run on a thread of their own             *)
(* (lib.rs:1678-1763), and Instant::elapsed grows while they spin.         *)
SpecFair == Spec /\ WF_vars(Interface) /\ WF_vars(Tick)

(* a SetMode(Stop) waits on the inbound queue *)
StopRequested ==
    \E i \in 1..Len(inbound) : inbound[i] = SetMode("Stop")

(* C3: in a mode other than Stop, once SetMode(Stop) is on the inbound     *)
(* queue the mode eventually becomes Stop, the port open or not.           *)
C3_NeverWedged ==
    [](((pc # "new" /\ si.mode \in NonStop /\ StopRequested))
        => <>(si.mode = "Stop"))

----------------------------------------------------------------------------
(* Master against a loopback device: the port is open, the mode is Master  *)
(* and start runs; the consumer sends one Send and the device puts every   *)
(* byte written to the port back on the line, one byte at a time.          *)

RECURSIVE Concat(_)
Concat(ss) == IF ss = <<>> THEN <<>> ELSE Head(ss) \o Concat(Tail(ss))

(* what open() and a SetMode(Master) in Stop leave, lib.rs:773-799, 1689 *)
Opened(m) ==
    {[b EXCEPT !.port = b.path, !.mode = m, !.timeout = t] :
        b \in {c \in Built : is_some(c.path)},
        t \in Durations \cup {TimeoutTicks}}

InitMaster ==
    /\ si \in Opened("Master")
    /\ inbound = <<>> /\ outbound = <<>> /\ rcvAlive = TRUE
    /\ pc = "idle" /\ args = NoArgs /\ buffer = <<>>
    /\ elapsed = 0 /\ idle = 0
    /\ rx = <<>> /\ wire = <<>> /\ dev = "ok"
    /\ ncmd = 0 /\ nbyte = 0 /\ last = NoLast

(* the loopback puts the next written byte on the line *)
Echo ==
    /\ is_some(si.port) /\ dev = "ok"
    /\ nbyte < Len(Concat(wire))
    /\ rx' = Append(rx, Concat(wire)[nbyte + 1])
    /\ nbyte' = nbyte + 1
    /\ UNCHANGED <<si, inbound, outbound, rcvAlive, pc, args, buffer,
                   elapsed, idle, wire, dev, ncmd>>
    /\ last' = NoLast

(* the consumer's only command *)
SendOnce == ncmd = 0 /\ Put(Send(DataA))

NextLoop ==
    \/ MasterStep(FALSE)
    \/ ClearStep
    \/ ReadStep(FALSE)
    \/ SendOnce
    \/ Echo
    \/ Tick

SpecLoop == InitMaster /\ [][NextLoop]_vars

(* C4: once the loopback has echoed every byte of Send(DataA) and the      *)
(* Interface has taken them all off the line, the read that ends leaves    *)
(* DataSent(DataA) then Receive(DataA) on outbound and nothing else.       *)
C4_RoundTrip ==
    (/\ last.act = "read" /\ last.why \in {"silence", "timeout"}
     /\ nbyte = Len(DataA) /\ rx = <<>>)
    => outbound = <<DataSent(DataA), Receive(DataA)>>

----------------------------------------------------------------------------
(* the bytes the device delivered that are neither on the line nor in      *)
(* `buffer` were cleared before the read began, so `buffer` is the run of  *)
(* the device's bytes that ends where the unread ones begin                *)
Arrived(buf, unread, n) ==
    [i \in 1..Len(buf) |-> Line(n - Len(unread) - Len(buf) + i)]

(* the events Command Intake answers a query with, lib.rs:855-881 *)
Answers == {"Connected", "Status", "Pong"}

(* C5: a read that ends on its timeout sends one event, NoResponse when    *)
(* its buffer is empty and else Receive of the bytes buffered, in the      *)
(* order they arrived; the only event that may come before it in the same  *)
(* pass of the loop is the answer to a query the pass took from inbound.   *)
(* A lone Send in Master to a silent device leaves DataSent then           *)
(* NoResponse.  A consumer that dropped the outbound channel is sent       *)
(* nothing: the read returns CannotSendMessage.                            *)
C5_TimeoutEmitsOne ==
    [][(last'.act = "read" /\ last'.why = "timeout") =>
         /\ buffer' = Arrived(buffer', rx', nbyte')
         /\ rcvAlive =>
               LET n == Len(outbound')
                   before == SubSeq(outbound', 1, n - 1)
               IN  /\ n > 0
                   /\ outbound'[n] = IF buffer' = <<>> THEN NoResponse
                                     ELSE Receive(buffer')
                   /\ \/ before = outbound
                      \/ /\ is_some(last'.cmd)
                         /\ Len(before) = Len(outbound) + 1
                         /\ SubSeq(before, 1, Len(outbound)) = outbound
                         /\ before[Len(before)].type \in Answers
         /\ ~rcvAlive =>
               outbound' = outbound /\ last'.err = "CannotSendMessage"
         /\ (rcvAlive /\ si.mode = "Master" /\ nbyte' = 0 /\ ncmd' = 1) =>
               outbound' = <<DataSent(DataA), NoResponse>>]_vars

(* a Send to a silent device timed out, then a second Send timed out with  *)
(* a byte in its buffer                                                    *)
C5_Witness ==
    /\ last.act = "read" /\ last.why = "timeout" /\ buffer # <<>>
    /\ outbound = <<DataSent(DataA), NoResponse,
                    DataSent(DataA), Receive(buffer)>>

----------------------------------------------------------------------------
(* Master waiting for a response: the consumer sends Send(DataA) and,      *)
(* while the Interface waits and before the device has answered, a second  *)
(* Send; the device answers once the request is on the wire.               *)

(* the payload of the second Send *)
DataB == <<3>>

SendFirst == ncmd = 0 /\ Put(Send(DataA))

SendSecond ==
    /\ ncmd = 1 /\ pc \in {"clear", "read"} /\ nbyte = 0
    /\ Put(Send(DataB))

Respond == wire # <<>> /\ Deliver

NextWait ==
    \/ MasterStep(FALSE)
    \/ ClearStep
    \/ ReadStep(FALSE)
    \/ SendFirst
    \/ SendSecond
    \/ Respond
    \/ Tick

SpecWait == InitMaster /\ [][NextWait]_vars

WaitingForResponse == Error("WaitingForResponse")

(* both Sends are consumed and the Interface is back in run_master's loop *)
AtRest == pc = "idle" /\ ncmd = 2 /\ inbound = <<>>

(* outbound is DataSent(DataA), Error(WaitingForResponse), then one        *)
(* Receive or NoResponse, and only DataA was written                       *)
RefusedThenAnswered ==
    /\ wire = <<DataA>>
    /\ Len(outbound) = 3
    /\ outbound[1] = DataSent(DataA)
    /\ outbound[2] = WaitingForResponse
    /\ outbound[3].type \in {"Receive", "NoResponse"}

(* C6 as stated: the second Send was placed on inbound before the response *)
(* arrived, so once both are consumed and the Interface is at rest,        *)
(* outbound is DataSent(a), Error(WaitingForResponse), Receive or          *)
(* NoResponse, and b was not written.                                      *)
C6_SendWhileWaiting == AtRest => RefusedThenAnswered

(* C6 amended: a Send that Command Intake takes from inbound during the    *)
(* wait is answered Error(WaitingForResponse), is not written and leaves   *)
(* the Interface waiting in Master; the run then ends with outbound        *)
(* DataSent(a), Error(WaitingForResponse), Receive or NoResponse.          *)
C6_SendTakenWhileWaiting ==
    [][/\ (pc = "read" /\ is_some(last'.cmd)
           /\ unwrap(last'.cmd).type = "Send")
          => /\ outbound' = Append(outbound, WaitingForResponse)
             /\ wire' = wire
             /\ pc' = "clear" /\ args' = args
             /\ si'.mode = "Master"
       /\ (AtRest' /\ \E i \in 1..Len(outbound') :
                         outbound'[i] = WaitingForResponse)
          => RefusedThenAnswered']_vars

(* the second Send was refused and the response to the first then came *)
C6_Witness ==
    /\ AtRest /\ last.act = "read" /\ wire = <<DataA>>
    /\ outbound = <<DataSent(DataA), WaitingForResponse, Receive(<<1>>)>>

----------------------------------------------------------------------------
(* the events the step just taken sent *)
Sent == SubSeq(outbound', Len(outbound) + 1, Len(outbound'))

SentType(t) == \E i \in 1..Len(Sent) : Sent[i].type = t

(* C7: a SetMode(Sniff) processed in Master, idle or waiting, sends        *)
(* Error(StopModeBeforeChange) and leaves the mode Master (the consumer    *)
(* holding the outbound channel).                                          *)
C7_IllegalModeChange ==
    [][(si.mode = "Master" /\ rcvAlive
        /\ last'.cmd = Some(SetMode("Sniff")))
       => /\ Sent = <<Error("StopModeBeforeChange")>>
          /\ si'.mode = "Master"]_vars

(* C8: a SetMode(Slave) processed in Stop with no modbus_id sends          *)
(* Error(SlaveModeNeedModbusID) and leaves the mode Stop; mode Slave with  *)
(* no modbus_id is never reached.                                          *)
C8_SlaveNeedsModbusId ==
    [][/\ (si.mode = "Stop" /\ si.modbus_id = None /\ rcvAlive
           /\ last'.cmd = Some(SetMode("Slave")))
          => /\ Sent = <<Error("SlaveModeNeedModbusID")>>
             /\ si'.mode = "Stop"
       /\ ~(si'.mode = "Slave" /\ si'.modbus_id = None)]_vars

(* what command c asks for has taken place in the step just taken *)
Acted(c) ==
    CASE c.type = "ListPorts" -> SentType("AvailablePorts")
      [] c.type = "SetPort" -> si'.path = Some(c.s)
      [] c.type = "SetLine" -> si'.line[c.s] = c.n
      [] c.type = "SetTimeout" -> si'.timeout = c.n
      [] c.type = "Connect" -> is_some(si'.port)
      [] c.type = "Disconnect" -> si'.port = None
      [] c.type = "Send" -> Len(wire') = Len(wire) + 1
      [] c.type = "SetMode" -> si'.mode = c.s
      [] c.type = "GetStatus" -> SentType("Status")
      [] c.type = "GetConnectionStatus" -> SentType("Connected")
      [] c.type = "Ping" -> SentType("Pong")

(* C9: every command taken from inbound is acted on or answered with an    *)
(* Error event (the consumer holding the outbound channel).                *)
C9_NeverSilentlyDrops ==
    [][(is_some(last'.cmd) /\ rcvAlive)
       => (Acted(unwrap(last'.cmd)) \/ SentType("Error"))]_vars

(* the failures of an operation inside a behaviour that C10 names *)
BehaviourErrors ==
    {"PortNotOpened", "CannotReadPort", "CannotWritePort", "CannotSendMessage"}

(* C10: a step of the Master, MasterStream, Slave or Sniff behaviour in    *)
(* which an operation failed ends with start having installed Stop.        *)
C10_FailSafeFallback ==
    (last.mode0 \in NonStop /\ last.err \in BehaviourErrors)
    => si.mode = "Stop"

----------------------------------------------------------------------------
(* the step just taken sent event e *)
SentEvent(e) == \E i \in 1..Len(Sent) : Sent[i] = e

(* the framing and I/O failures of a behaviour *)
IoErrors == {"PortNotOpened", "CannotReadPort", "CannotWritePort"}

(* C11: a step of a behaviour in which a port read or write failed, or     *)
(* that found no port, sends Error(kind) (the consumer holding the         *)
(* outbound channel).                                                      *)
C11_ErrorsBecomeEvents ==
    [][(last'.mode0 \in NonStop /\ last'.err \in IoErrors /\ rcvAlive)
       => SentEvent(Error(last'.err))]_vars

(* C12: a step of a behaviour in which a send on the outbound channel      *)
(* failed with CannotSendMessage ends with the behaviour returned and the  *)
(* mode Stop.                                                              *)
C12_CannotSendIsFatal ==
    (last.mode0 \in NonStop /\ last.err = "CannotSendMessage")
    => (last.ret # "-" /\ si.mode = "Stop")

(* C13: a settings command processed in a mode other than Stop is answered *)
(* Error(StopToChangeSettings), Error(DisconnectToChangeSettings) when the *)
(* port is open.                                                           *)
C13_SettingsRefusedOutsideStop ==
    [][(si.mode \in NonStop /\ rcvAlive /\ is_some(last'.cmd)
        /\ unwrap(last'.cmd).type \in {"SetPort", "SetLine"})
       => SentEvent(Error(IF is_some(si.port)
                          THEN "DisconnectToChangeSettings"
                          ELSE "StopToChangeSettings"))]_vars

----------------------------------------------------------------------------
(* a Ping waits on the inbound queue *)
PingQueued == \E i \in 1..Len(inbound) : inbound[i] = Ping

(* the step just taken took a Ping and, the consumer holding the outbound  *)
(* channel, sent Pong last                                                 *)
PingAnswered ==
    /\ TookCmd(Ping)
    /\ rcvAlive => (outbound # <<>> /\ outbound[Len(outbound)] = Pong)

(* C14: in any mode and any port state, a Ping on the inbound queue is     *)
(* eventually taken and answered with Pong.                                *)
C14_PingLiveness == [](PingQueued => <>PingAnswered)

----------------------------------------------------------------------------
Queries == {GetStatus, GetConnectionStatus, Ping}

(* the event that answers query c in the state the step began in *)
Answer(c) ==
    CASE c = GetStatus -> StatusMsg(si.status)
      [] c = GetConnectionStatus -> Connected(is_some(si.port))
      [] c = Ping -> Pong

(* C15: a step that takes GetStatus, GetConnectionStatus or Ping sends its *)
(* one answer, Status(status), Connected(port present) or Pong, and leaves *)
(* the Interface as it was; when the pass of the read loop that took the   *)
(* query also hits the read's timeout, the read ends as it does without    *)
(* the query: NoResponse follows and status becomes None.  Two GetStatus   *)
(* taken one after the other get the same answer.  (The consumer holds the *)
(* outbound channel.)                                                      *)
C15_QueriesHaveNoSideEffect ==
    [][(rcvAlive /\ is_some(last'.cmd) /\ unwrap(last'.cmd) \in Queries)
       => /\ IF last'.why = "timeout"
             THEN /\ Sent = <<Answer(unwrap(last'.cmd)), NoResponse>>
                  /\ si' = [si EXCEPT !.status = "None"]
             ELSE /\ Sent = <<Answer(unwrap(last'.cmd))>>
                  /\ si' = si
          /\ wire' = wire /\ rx' = rx /\ inbound' = Tail(inbound)
          /\ (TookCmd(GetStatus) /\ last.why # "timeout"
              /\ last'.cmd = Some(GetStatus))
             => Sent[1] = outbound[Len(outbound)]]_vars

(* two GetStatus were answered one after the other while Sniff listened *)
C15_Witness ==
    /\ TookCmd(GetStatus) /\ last.mode0 = "Sniff" /\ pc = "read"
    /\ si.status = "Read"
    /\ outbound = <<StatusMsg("Read"), StatusMsg("Read")>>

----------------------------------------------------------------------------
(* Cold connect and sniff, the example program: start runs on a freshly    *)
(* built Interface, the consumer sends SetPort, SetBauds, Connect and      *)
(* SetMode(Sniff) in that order, the open succeeds, and once the mode is   *)
(* Sniff a burst of bytes arrives on the line in one go, then silence.     *)

ColdCommands ==
    <<SetPort(DevicePath), SetLine("baud_rate", 1), Connect, SetMode("Sniff")>>

(* the burst the device sends *)
Burst == [i \in 1..MaxBytes |-> Line(i)]

InitCold ==
    /\ si \in Built
    /\ inbound = <<>> /\ outbound = <<>> /\ rcvAlive = TRUE
    /\ pc = "idle" /\ args = NoArgs /\ buffer = <<>>
    /\ elapsed = 0 /\ idle = 0
    /\ rx = <<>> /\ wire = <<>> /\ dev = "ok"
    /\ ncmd = 0 /\ nbyte = 0 /\ last = NoLast

(* the consumer sends the next of its commands *)
PutCold ==
    /\ ncmd < Len(ColdCommands)
    /\ inbound' = Append(inbound, ColdCommands[ncmd + 1])
    /\ ncmd' = ncmd + 1
    /\ UNCHANGED <<si, outbound, rcvAlive, pc, args, buffer, elapsed, idle,
                   rx, wire, dev, nbyte>>
    /\ last' = NoLast

(* every command is processed and the burst arrives *)
Inject ==
    /\ si.mode = "Sniff" /\ is_some(si.port) /\ nbyte = 0
    /\ rx' = rx \o Burst
    /\ nbyte' = Len(Burst)
    /\ UNCHANGED <<si, inbound, outbound, rcvAlive, pc, args, buffer,
                   elapsed, idle, wire, dev, ncmd>>
    /\ last' = NoLast

InterfaceCold ==
    \/ StopStep(None, "ok")
    \/ SniffStep
    \/ ClearStep
    \/ ReadStep(FALSE)

NextCold == InterfaceCold \/ PutCold \/ Inject \/ Tick

SpecCold ==
    InitCold /\ [][NextCold]_vars /\ WF_vars(InterfaceCold) /\ WF_vars(Tick)

ConnectedThenBurst == <<Connected(TRUE), Receive(Burst)>>

(* the burst has arrived and is off the line, and listen waits for more *)
Settled ==
    /\ si.mode = "Sniff" /\ nbyte = Len(Burst) /\ rx = <<>>
    /\ pc = "read" /\ buffer = <<>>

(* C16: the four commands processed in order and the burst       *)
(* injected after them, once the burst is off the line and listen waits    *)
(* again, outbound is exactly Connected(true), Receive(burst).             *)
C16_ColdConnectAndSniff == Settled => outbound = ConnectedThenBurst

(* What the code does guarantee in this scenario: outbound is never        *)
(* anything but a prefix of Connected(true), Receive(burst), and a burst   *)
(* that arrives while listen's read loop is running (after its             *)
(* clear_read_buffer) is received whole.                                   *)
SniffWhileListening ==
    /\ [](\E n \in 0..2 : outbound = SubSeq(ConnectedThenBurst, 1, n))
    /\ [](((si.mode = "Sniff" /\ pc = "read" /\ buffer = <<>> /\ rx = Burst))
          => <>(outbound = ConnectedThenBurst))

(* the burst was received whole and listen waits again *)
BurstReceived == Settled /\ outbound = ConnectedThenBurst /\ si.status = "Read"

----------------------------------------------------------------------------
(* C17: every Connected(b) event sent by a step that took Connect,         *)
(* Disconnect or GetConnectionStatus has b equal to whether the port is    *)
(* present when it is sent (these steps change the port, if at all,        *)
(* before they send).                                                      *)
ConnectionCmds == {Connect, Disconnect, GetConnectionStatus}

C17_ConnectedIsTruthful ==
    [][(is_some(last'.cmd) /\ unwrap(last'.cmd) \in ConnectionCmds)
       => \A i \in 1..Len(Sent) :
              Sent[i].type = "Connected"
              => Sent[i] = Connected(is_some(si'.port))]_vars

----------------------------------------------------------------------------
(* the causes open can fail with, given the state it is called in *)
OpenFailures ==
    IF is_some(si.port) THEN {"PortAlreadyOpen"}
    ELSE IF ~is_some(si.path) THEN {"PathMissing"}
    ELSE {"CannotOpenPort", "CannotSetTimeout"}

----------------------------------------------------------------------------
(* C19: whenever a Disconnect is processed, in any mode, the consumer      *)
(* holding the outbound channel, the port is absent afterwards and         *)
(* Connected(false) is sent.                                               *)
C19_DisconnectInAllModes ==
    [][(rcvAlive /\ last'.cmd = Some(Disconnect))
       => (si'.port = None /\ SentEvent(Connected(FALSE)))]_vars

----------------------------------------------------------------------------
(* C20: in a mode other than Stop, the port open and the device present,   *)
(* the consumer holding the outbound channel, a Send(data) processed       *)
(* outside a Master response wait by a step in which no write falls short  *)
(* writes data to the port and sends DataSent(data).                       *)
C20_SendOutsideStop ==
    [][(/\ si.mode \in NonStop /\ is_some(si.port) /\ dev = "ok" /\ rcvAlive
        /\ ~(si.mode = "Master" /\ pc # "idle")
        /\ is_some(last'.cmd) /\ unwrap(last'.cmd).type = "Send"
        /\ wire' \in {wire, Append(wire, unwrap(last'.cmd).data)})
       => /\ wire' = Append(wire, unwrap(last'.cmd).data)
          /\ SentEvent(DataSent(unwrap(last'.cmd).data))]_vars

----------------------------------------------------------------------------
(* C21: while the mode is Stop no step writes to the port or sends         *)
(* DataSent, and a Send at the head of inbound is taken by read_message    *)
(* without being returned to its caller.                                   *)
C21_SendNotEscalatedInStop ==
    [][si.mode = "Stop"
       => /\ wire' = wire
          /\ ~SentType("DataSent")
          /\ (si.receiver /\ inbound # <<>> /\ Head(inbound).type = "Send")
             => LET r == read_message(World(OsQuiet)) IN
                r.ok /\ r.val = None /\ r.w.inb = Tail(inbound)]_vars

(* a Send was processed in Stop with the port open, and nothing happened *)
C21_Witness ==
    /\ last.act = "start_stop" /\ TookCmd(Send(DataA))
    /\ si.mode = "Stop" /\ is_some(si.port) /\ dev = "ok" /\ rcvAlive
    /\ wire = <<>> /\ outbound = <<>>

----------------------------------------------------------------------------
(* C22: in Slave and in Sniff, the consumer holding the outbound channel,  *)
(* a processed SetMode(Stop) makes the mode Stop; SetMode(Sniff) in Sniff  *)
(* sends nothing, keeps the mode and starts the next read; every other     *)
(* SetMode sends exactly Error(StopModeBeforeChange) and keeps the mode.   *)
C22_ModeChangeInSlaveAndSniff ==
    [][(si.mode \in {"Slave", "Sniff"} /\ rcvAlive
        /\ is_some(last'.cmd) /\ unwrap(last'.cmd).type = "SetMode")
       => LET m == unwrap(last'.cmd).s IN
          IF m = "Stop" THEN si'.mode = "Stop" /\ Sent = <<>>
          ELSE IF si.mode = "Sniff" /\ m = "Sniff"
          THEN si'.mode = "Sniff" /\ Sent = <<>> /\ pc' = "clear"
          ELSE /\ si'.mode = si.mode
               /\ Sent = <<Error("StopModeBeforeChange")>>]_vars

(* Sniff refused SetMode(Slave) and listens again *)
C22_Witness ==
    /\ TookCmd(SetMode("Slave")) /\ last.mode0 = "Sniff" /\ si.mode = "Sniff"
    /\ pc = "clear"
    /\ outbound = <<Error("StopModeBeforeChange")>>

----------------------------------------------------------------------------
(* MasterStream with the port open: the consumer sends Send(DataA) and,    *)
(* at any later time, one more command; once DataA is written the device   *)
(* answers byte by byte with a noise byte followed by a CRC-valid frame.   *)

FrameBody == <<1, 3, 0>>
NoiseByte == 9

(* the frame the device answers with: body, then crc16 high byte first *)
Frame == FrameBody \o <<crc16(FrameBody) \div 256, crc16(FrameBody) % 256>>

Response == <<NoiseByte>> \o Frame

InitStream ==
    /\ si \in Opened("MasterStream")
    /\ inbound = <<>> /\ outbound = <<>> /\ rcvAlive = TRUE
    /\ pc = "idle" /\ args = NoArgs /\ buffer = <<>>
    /\ elapsed = 0 /\ idle = 0
    /\ rx = <<>> /\ wire = <<>> /\ dev = "ok"
    /\ ncmd = 0 /\ nbyte = 0 /\ last = NoLast

(* the consumer's second command, sent at any time after the first *)
SendLater ==
    /\ ncmd = 1
    /\ \E c \in {Send(DataB), SetMode("Stop"), Ping} : Put(c)

(* the device puts the next byte of its answer on the line *)
Transmit ==
    /\ wire # <<>> /\ is_some(si.port) /\ dev = "ok"
    /\ nbyte < Len(Response)
    /\ rx' = Append(rx, Response[nbyte + 1])
    /\ nbyte' = nbyte + 1
    /\ UNCHANGED <<si, inbound, outbound, rcvAlive, pc, args, buffer,
                   elapsed, idle, wire, dev, ncmd>>
    /\ last' = NoLast

InterfaceStream ==
    \/ MasterStreamStep(FALSE)
    \/ ClearStep
    \/ StreamStep

NextStream == InterfaceStream \/ SendFirst \/ SendLater \/ Transmit \/ Tick

SpecStream == InitStream /\ [][NextStream]_vars

(* read_stream is running, from its clear_read_buffer to its return *)
InStreamRead == si.mode = "MasterStream" /\ pc \in {"clear", "stream"}

----------------------------------------------------------------------------
----------------------------------------------------------------------------
(* The two builds differ in no function but write_read_stream's handling   *)
(* of what read_stream returned, so they are compared there: from every    *)
(* state in which a pass of read_stream returns, both must leave the same  *)
(* events on outbound (and the same Interface).                            *)

(* C25: in every reachable state in which the next pass of read_stream     *)
(* returns, the std-mpsc build and the async-channel build end             *)
(* write_read_stream in the same mode, status and outbound events.         *)
C25_FlavorsAgree ==
    pc = "stream"
    => LET p == read_stream_pass(World(OsQuiet), args, buffer, elapsed) IN
       p.done
       => LET sync == write_read_stream_returned(p.res)
              async == write_read_stream_returned_async(p.res)
          IN  sync.w.out = async.w.out /\ sync.w.si = async.w.si

----------------------------------------------------------------------------
(* The stream scanner as a function: read_stream hands try_decode_buffer   *)
(* the bytes it has accumulated and returns Receive(frame) when a frame    *)
(* is found.  The buffers are built from CRC-valid frames of 4, 5, 6 and 7 *)
(* bytes, whole, corrupted, nested and doubled, between runs of noise.     *)

(* data followed by its crc16, high byte first *)
Framed(data) == data \o <<crc16(data) \div 256, crc16(data) % 256>>

(* the frame with its last byte changed *)
Corrupted(frame) ==
    [frame EXCEPT ![Len(frame)] = (frame[Len(frame)] + 1) % 256]

ScanBodies == {<<2, 4>>, FrameBody, <<1, 3, 0, 0>>}
ScanNoise == {<<>>, <<NoiseByte>>, <<NoiseByte, 7>>}

ScanBuffers ==
    {p \o f \o q :
        p \in ScanNoise, q \in ScanNoise,
        f \in {Framed(b) : b \in ScanBodies}
              \cup {Corrupted(Framed(b)) : b \in ScanBodies}
              \cup {Framed(Framed(b)) : b \in ScanBodies}
              \cup {Framed(a) \o Framed(b) : a, b \in ScanBodies}}

InitScan ==
    /\ buffer \in ScanBuffers
    /\ pc = "scan"
    /\ si = new
    /\ inbound = <<>> /\ outbound = <<>> /\ rcvAlive = TRUE
    /\ args = NoArgs /\ elapsed = 0 /\ idle = 0
    /\ rx = <<>> /\ wire = <<>> /\ dev = "ok"
    /\ ncmd = 0 /\ nbyte = 0 /\ last = NoLast

(* read_stream's use of the scanner, lib.rs:673-677 *)
Scan ==
    /\ pc = "scan"
    /\ pc' = "scanned"
    /\ LET decoded == try_decode_buffer(buffer) IN
       outbound' = IF is_some(decoded) THEN <<Receive(unwrap(decoded))>>
                   ELSE <<>>
    /\ UNCHANGED <<si, inbound, rcvAlive, args, buffer, elapsed, idle,
                   rx, wire, dev, ncmd, nbyte, last>>

SpecScan == InitScan /\ [][Scan]_vars

(* the last two bytes of f are crc16 of the bytes before them, high first *)
CrcValid(f) ==
    /\ Len(f) >= 2
    /\ LET crc == crc16(SubSeq(f, 1, Len(f) - 2)) IN
       /\ f[Len(f) - 1] = crc \div 256
       /\ f[Len(f)] = crc % 256

(* the contiguous windows of buf of length 5 or more that are CRC-valid *)
ValidWindows(buf) ==
    {f \in {SubSeq(buf, i, j) : i \in 1..Len(buf), j \in 1..Len(buf)} :
        Len(f) >= 5 /\ CrcValid(f)}

(* C26: what the scanner returns is a CRC-valid window of the buffer of at *)
(* least 5 bytes, and it returns nothing only when the buffer has no such  *)
(* window.                                                                 *)
C26_ScannerSoundAndComplete ==
    pc = "scanned"
    => IF outbound = <<>> THEN ValidWindows(buffer) = {}
       ELSE outbound[1].data \in ValidWindows(buffer)

(* a 5-byte frame found between noise bytes *)
C26_Witness ==
    /\ pc = "scanned"
    /\ buffer = <<NoiseByte>> \o Frame \o <<NoiseByte, 7>>
    /\ outbound = <<Receive(Frame)>>

(* C27: no CRC-valid window of the buffer is shorter than the frame the    *)
(* scanner returns.                                                        *)
C27_ScannerMinimal ==
    (pc = "scanned" /\ outbound # <<>>)
    => \A f \in ValidWindows(buffer) : Len(f) >= Len(outbound[1].data)

(* a 7-byte valid frame whose first 5 bytes are a valid frame: the scanner *)
(* returns the 5-byte one                                                  *)
C27_Witness ==
    /\ pc = "scanned"
    /\ buffer = Framed(Frame)
    /\ outbound = <<Receive(Frame)>>

----------------------------------------------------------------------------
(* crc16 as a function, applied to byte strings of up to 3 bytes over a    *)
(* few byte values and to the request 01 03 00 00 00 01.                   *)

KnownRequest == <<1, 3, 0, 0, 0, 1>>
CrcBytes == {0, 1, 128, 255}

CrcInputs ==
    {KnownRequest}
    \cup UNION {[1..n -> CrcBytes] : n \in 0..3}

InitCrc ==
    /\ buffer \in CrcInputs
    /\ pc = "crc"
    /\ si = new
    /\ inbound = <<>> /\ outbound = <<>> /\ rcvAlive = TRUE
    /\ args = NoArgs /\ elapsed = 0 /\ idle = 0
    /\ rx = <<>> /\ wire = <<>> /\ dev = "ok"
    /\ ncmd = 0 /\ nbyte = 0 /\ last = NoLast

(* a call of crc16 on the bytes in buffer; last.ret is what it returned *)
Crc ==
    /\ pc = "crc"
    /\ pc' = "crc_returned"
    /\ last' = [NoLast EXCEPT !.act = "crc16", !.ret = crc16(buffer)]
    /\ UNCHANGED <<si, inbound, outbound, rcvAlive, args, buffer, elapsed,
                   idle, rx, wire, dev, ncmd, nbyte>>

SpecCrc == InitCrc /\ [][Crc]_vars

(* The Modbus CRC-16 on a register held as the set of its 1 bits: XOR is   *)
(* the symmetric difference, the seed 0xFFFF is every bit, 0xA001 is bits  *)
(* 0, 13 and 15.                                                           *)
BitsOf(x) == {i \in 0..15 : (x \div (2 ^ i)) % 2 = 1}
SymDiff(a, b) == (a \ b) \cup (b \ a)
ShiftStep(reg) ==
    LET shifted == {i - 1 : i \in reg \ {0}} IN
    IF 0 \in reg THEN SymDiff(shifted, {0, 13, 15}) ELSE shifted

RECURSIVE ShiftSteps(_, _)
ShiftSteps(reg, n) ==
    IF n = 0 \/ reg = {} THEN reg ELSE ShiftSteps(ShiftStep(reg), n - 1)

RECURSIVE ModbusRegister(_)
ModbusRegister(data) ==
    IF data = <<>> THEN 0..15
    ELSE ShiftSteps(SymDiff(ModbusRegister(SubSeq(data, 1, Len(data) - 1)),
                            BitsOf(data[Len(data)])), 8)

RECURSIVE SumPow2(_)
SumPow2(bits) ==
    IF bits = {} THEN 0
    ELSE LET b == CHOOSE x \in bits : TRUE IN 2 ^ b + SumPow2(bits \ {b})

(* the Modbus CRC-16 of data with its two bytes swapped *)
ModbusSwapped(data) == SumPow2({(i + 8) % 16 : i \in ModbusRegister(data)})

(* C28: crc16 returns the Modbus CRC-16 of its input with the two bytes    *)
(* swapped, 0x840A for 01 03 00 00 00 01, and check_crc accepts a frame of *)
(* 5 bytes or more exactly when its last two bytes are that value, high    *)
(* byte first.                                                             *)
C28_Crc16IsModbus ==
    pc = "crc_returned"
    => /\ last.ret = ModbusSwapped(buffer)
       /\ crc16(buffer) = last.ret
       /\ buffer = KnownRequest => last.ret = 33802
       /\ Len(buffer) >= 3
          => \A hi, lo \in {last.ret \div 256, last.ret % 256, 0, 255} :
                check_crc(buffer \o <<hi, lo>>)
                <=> (hi = last.ret \div 256 /\ lo = last.ret % 256)

(* crc16 of 01 03 00 00 00 01 returned 0x840A *)
C28_Witness ==
    pc = "crc_returned" /\ buffer = KnownRequest /\ last.ret = 33802

----------------------------------------------------------------------------
(* a request was written and neither Receive nor NoResponse has answered it *)
Unanswered ==
    /\ \E i \in 1..Len(outbound) : outbound[i].type = "DataSent"
    /\ \A i \in 1..Len(outbound) :
          outbound[i].type \notin {"Receive", "NoResponse"}

(* C29: in Master, while the written request is unanswered, the time       *)
(* counted against its timeout never goes back: the wait that began when   *)
(* the request was written ends within timeout of its beginning, whatever  *)
(* commands arrive meanwhile.                                              *)
C29_TimeoutIsOverallDeadline ==
    [][(si.mode = "Master" /\ pc \in {"clear", "read"} /\ Unanswered
        /\ pc' \in {"clear", "read"})
       => elapsed' >= elapsed]_vars

----------------------------------------------------------------------------
(* C30: with the port absent and the mode not Stop, no step writes to the  *)
(* port, takes a byte off it, or sends DataSent, Receive or NoResponse; a  *)
(* step that attempts a write (a Send processed by Master or MasterStream, *)
(* silence configured) or a read (a pass of clear_read_buffer or of a      *)
(* framing loop) fails with PortNotOpened.                                 *)
C30_PortRequired ==
    [][(si.mode \in NonStop /\ ~is_some(si.port) /\ pc # "new")
       => /\ wire' = wire /\ rx' = rx
          /\ \A t \in {"DataSent", "Receive", "NoResponse"} : ~SentType(t)
          /\ (/\ pc = "idle" /\ si.mode \in {"Master", "MasterStream"}
              /\ is_some(si.silence)
              /\ is_some(last'.cmd) /\ unwrap(last'.cmd).type = "Send")
             => last'.err = "PortNotOpened"
          /\ (pc \in {"clear", "read", "stream"} /\ last'.act # "-")
             => last'.err = "PortNotOpened" /\ pc' = "idle"]_vars

(* Master, no port: the processed Send failed with PortNotOpened and left  *)
(* nothing on outbound                                                     *)
C30_Witness ==
    /\ last.mode0 = "Master" /\ TookCmd(Send(DataA))
    /\ last.err = "PortNotOpened"
    /\ ~is_some(si.port) /\ wire = <<>> /\ outbound = <<>> /\ rcvAlive

----------------------------------------------------------------------------
(* C31: a pass of the silence-gated read that has, or receives, a byte of  *)
(* a frame takes no command from inbound; when such a pass ends the read   *)
(* it ends it by silence, size or timeout (or on a port error), never by   *)
(* a message, and unless the port failed it sends exactly Receive(buffer)  *)
(* to a consumer holding the channel.                                      *)
C31_NoIntakeWhileReceiving ==
    [][(pc = "read" /\ last'.act = "read" /\ buffer' # <<>>)
       => /\ last'.cmd = None /\ inbound' = inbound
          /\ pc' # "read"
             => /\ last'.why \in {"silence", "size", "timeout", "error"}
                /\ (last'.why # "error" /\ rcvAlive)
                   => Sent = <<Receive(buffer')>>]_vars

(* SetMode(Stop) is queued, a byte is buffered, and a pass of the read has *)
(* left the command where it was                                           *)
C31_Witness ==
    /\ pc = "read" /\ last.act = "read" /\ buffer # <<>>
    /\ inbound = <<SetMode("Stop")>>

----------------------------------------------------------------------------
(* byte b is in the payload of a Receive event on outbound *)
InReceive(b) ==
    \E i \in 1..Len(outbound) :
        /\ outbound[i].type = "Receive"
        /\ \E j \in 1..Len(outbound[i].data) : outbound[i].data[j] = b

Pending(b) == \E i \in 1..Len(rx) : rx[i] = b

----------------------------------------------------------------------------
(* C33: a step that sends DataSent(data) has written all of data to the    *)
(* port.                                                                   *)
C33_DataSentAfterWholeWrite ==
    [][\A i \in 1..Len(Sent) :
          Sent[i].type = "DataSent" => wire' = Append(wire, Sent[i].data)]_vars

----------------------------------------------------------------------------
(* C40: before start, on an Interface whose modbus_id is set, no sequence  *)
(* of set_mode, open and close calls leaves mode != Stop with the port     *)
(* present: open called with mode != Stop fails with PortAlreadyOpen,      *)
(* set_mode called in Stop with the port present fails with                *)
(* DisconnectToChangeSettings, set_mode called with mode != Stop fails     *)
(* with StopToChangeSettings, and a failed call changes nothing.           *)
C40_ApiKeepsPortAndModeApart ==
    /\ []((pc = "new" /\ is_some(si.modbus_id))
          => ~(si.mode # "Stop" /\ is_some(si.port)))
    /\ [][(pc = "new" /\ is_some(si.modbus_id))
          => /\ (last'.act = "open" /\ si.mode # "Stop")
                => (last'.err = "PortAlreadyOpen" /\ si' = si)
             /\ (last'.act = "set_mode" /\ si.mode = "Stop" /\ is_some(si.port))
                => (last'.err = "DisconnectToChangeSettings" /\ si' = si)
             /\ (last'.act = "set_mode" /\ si.mode # "Stop")
                => (last'.err = "StopToChangeSettings" /\ si' = si)]_vars

(* set_mode was refused because the port is open *)
C40_Witness ==
    /\ pc = "new" /\ is_some(si.modbus_id)
    /\ last.act = "set_mode" /\ last.err = "DisconnectToChangeSettings"
    /\ si.mode = "Stop" /\ is_some(si.port)

----------------------------------------------------------------------------
(* C34: a SetTimeout(d) taken while Master waits for a response stores d   *)
(* and leaves the wait in flight on the timeout captured when its Send was *)
(* dispatched: the wait goes on, arguments and clock untouched, unless the *)
(* captured timeout has run out, whatever d is.  A Send dispatched by      *)
(* run_master waits with the timeout stored at that moment.                *)
C34_TimeoutCapturedAtDispatch ==
    [][/\ (pc = "read" /\ si.mode = "Master" /\ is_some(last'.cmd)
           /\ unwrap(last'.cmd).type = "SetTimeout")
          => /\ si'.timeout = unwrap(last'.cmd).n
             /\ elapsed' = elapsed
             /\ IF elapsed > unwrap(args.timeout)
                THEN pc' # "read" /\ last'.why = "timeout"
                ELSE pc' = "read" /\ args' = args
       /\ (pc = "idle" /\ si.mode = "Master" /\ is_some(last'.cmd)
           /\ unwrap(last'.cmd).type = "Send" /\ pc' \in {"clear", "read"})
          => args'.timeout = Some(si.timeout)]_vars

(* the wait goes on past the new, shorter timeout *)
C34_Witness ==
    /\ pc = "read" /\ si.mode = "Master"
    /\ TookCmd(SetTimeout(1)) /\ si.timeout = 1
    /\ args.timeout = Some(TimeoutTicks) /\ elapsed = TimeoutTicks

----------------------------------------------------------------------------
(* Master with the port open and start running: the consumer sends any two *)
(* commands, the device answers or not, and nothing fails by itself.  The  *)
(* read loops run on start's thread and Instant::elapsed grows while they  *)
(* spin (lib.rs:426-498).                                                  *)
NextPair ==
    \/ \E short \in BOOLEAN : MasterStep(short)
    \/ ClearStep
    \/ \E short \in BOOLEAN : ReadStep(short)
    \/ \E c \in Commands : Put(c)
    \/ Deliver
    \/ Tick

SpecPair ==
    /\ InitMaster /\ [][NextPair]_vars
    /\ WF_vars(ClearStep \/ \E short \in BOOLEAN : ReadStep(short))
    /\ WF_vars(Tick)

(* write_read is waiting for the response to the request it wrote *)
Awaiting == si.mode = "Master" /\ pc \in {"clear", "read"}

(* the Receive and NoResponse events among those the step sent *)
AnswersSent ==
    {i \in 1..Len(Sent) : Sent[i].type \in {"Receive", "NoResponse"}}

----------------------------------------------------------------------------
(* the proper prefixes of buf *)
ProperPrefixes(buf) == {SubSeq(buf, 1, n) : n \in 0..(Len(buf) - 1)}

(* C36: while read_stream runs, the bytes it has accumulated hold no       *)
(* CRC-valid window; the pass that returns a frame has just received a     *)
(* byte, the frame ends with that byte, and no proper prefix of the        *)
(* accumulated bytes holds a CRC-valid window.                             *)
C36_FrameEndsWithLastByte ==
    /\ [](pc = "stream" => ValidWindows(buffer) = {})
    /\ [][(pc = "stream" /\ last'.act = "stream" /\ last'.why = "frame")
          => /\ rx # <<>> /\ rx' = Tail(rx)
             /\ buffer' = Append(buffer, Head(rx))
             /\ \E f \in ValidWindows(buffer') :
                   /\ Sent = <<Receive(f)>>
                   /\ f = SubSeq(buffer', Len(buffer') - Len(f) + 1,
                                 Len(buffer'))
             /\ \A p \in ProperPrefixes(buffer') : ValidWindows(p) = {}]_vars

(* the frame came back with the byte that completed it, after a noise byte *)
C36_Witness ==
    /\ last.act = "stream" /\ last.why = "frame"
    /\ buffer = Response /\ rx = <<>>
    /\ outbound[Len(outbound)] = Receive(Frame)
    /\ Len(Frame) < Len(buffer)

----------------------------------------------------------------------------
(* Sniff with the port open and start running: the consumer sends any two  *)
(* commands, the device puts bytes on the line at any moment and may be    *)
(* unplugged.                                                              *)
InitSniff ==
    /\ si \in Opened("Sniff")
    /\ inbound = <<>> /\ outbound = <<>> /\ rcvAlive = TRUE
    /\ pc = "idle" /\ args = NoArgs /\ buffer = <<>>
    /\ elapsed = 0 /\ idle = 0
    /\ rx = <<>> /\ wire = <<>> /\ dev = "ok"
    /\ ncmd = 0 /\ nbyte = 0 /\ last = NoLast

NextSniff ==
    \/ SniffStep
    \/ ClearStep
    \/ \E short \in BOOLEAN : ReadStep(short)
    \/ \E c \in Commands : Put(c)
    \/ Deliver
    \/ Tick
    \/ Unplug

SpecSniff == InitSniff /\ [][NextSniff]_vars

(* the payloads of the Receive events of outbound, in emission order *)
RECURSIVE Payloads_of(_)
Payloads_of(out) ==
    IF out = <<>> THEN <<>>
    ELSE (IF Head(out).type = "Receive" THEN Head(out).data ELSE <<>>)
         \o Payloads_of(Tail(out))

(* s can be obtained from t by deleting elements *)
RECURSIVE IsSubsequence(_, _)
IsSubsequence(s, t) ==
    IF s = <<>> THEN TRUE
    ELSE IF t = <<>> THEN FALSE
    ELSE IF Head(s) = Head(t) THEN IsSubsequence(Tail(s), Tail(t))
    ELSE IsSubsequence(s, Tail(t))

(* the bytes the device has put on the line so far *)
Delivered == [n \in 1..nbyte |-> Line(n)]

(* the bytes the running read holds *)
Buffered == IF pc = "read" THEN buffer ELSE <<>>

(* the Receive payloads are delivered bytes in delivery order, none empty *)
ReceivedFaithfully ==
    /\ IsSubsequence(Payloads_of(outbound) \o Buffered, Delivered)
    /\ \A i \in 1..Len(outbound) :
          outbound[i].type = "Receive" => outbound[i].data # <<>>

(* a byte leaves the port's input for the read's buffer or in the drain at *)
(* the start of a read                                                     *)
LeavesPortByReadOrDrain ==
    rx' # rx => \/ pc = "clear" /\ last'.act = "clear"
                \/ pc = "read" /\ rx' = Tail(rx)
                   /\ buffer' = Append(buffer, Head(rx))

(* the read goes on with its buffer, the byte just read appended or not *)
BufferKept ==
    /\ pc' = "read"
    /\ \/ buffer' = buffer
       \/ rx # <<>> /\ buffer' = Append(buffer, Head(rx))

(* the read ends with one Receive of all it buffered *)
BufferReceived ==
    /\ pc' # "read" /\ Sent = <<Receive(buffer')>>
    /\ SubSeq(buffer', 1, Len(buffer)) = buffer

(* The statement of C37 as claimed: in Sniff with the port open, the       *)
(* payloads of the Receive events are a subsequence of the bytes the       *)
(* device delivered, no payload is empty, and a byte that left the port's  *)
(* input is missing from them only if the drain at the start of a read     *)
(* took it.                                                                *)
C37_MissingOnlyIfDrained ==
    /\ []ReceivedFaithfully
    /\ [][(last'.mode0 = "Sniff" /\ is_some(si.port) /\ rcvAlive)
          => /\ LeavesPortByReadOrDrain
             /\ (pc = "read" /\ buffer # <<>>)
                => (BufferKept \/ BufferReceived)]_vars

(* C37, amended: as above, and the bytes buffered by a read are also       *)
(* missing when a read of the port fails (CannotReadPort) before the read  *)
(* ends: the read returns the error and no Receive is sent.                *)
C37_SniffIsFaithful ==
    /\ []ReceivedFaithfully
    /\ [][(last'.mode0 = "Sniff" /\ is_some(si.port) /\ rcvAlive)
          => /\ LeavesPortByReadOrDrain
             /\ (pc = "read" /\ buffer # <<>>)
                => \/ BufferKept
                   \/ BufferReceived
                   \/ /\ last'.err = "CannotReadPort" /\ dev = "gone"
                      /\ pc' # "read" /\ ~SentType("Receive")
                      /\ buffer' = buffer]_vars

(* one byte came in a Receive, the next was buffered when the read failed *)
C37_Witness ==
    /\ last.mode0 = "Sniff" /\ last.act = "read"
    /\ last.err = "CannotReadPort"
    /\ outbound = <<Receive(<<Line(1)>>)>> /\ buffer = <<Line(2)>>

----------------------------------------------------------------------------
(* C38: whenever the mode is Stop the status is None, and a GetStatus      *)
(* processed in Stop is answered Status(None) (the consumer holding the    *)
(* outbound channel).                                                      *)
C38_StopIsIdle ==
    /\ [](si.mode = "Stop" => si.status = "None")
    /\ [][(pc = "idle" /\ si.mode = "Stop" /\ rcvAlive
           /\ last'.cmd = Some(GetStatus))
          => Sent = <<StatusMsg("None")>>]_vars

----------------------------------------------------------------------------
(* the builder silence(), lib.rs:277-280 *)
silence(b, d) == [b EXCEPT !.silence = Some(d)]

(* C39: silence is set in every reachable state, the builder silence()     *)
(* leaves it set whatever it is given, and no step ends with               *)
(* SilenceMissing.                                                         *)
C39_SilenceAlwaysSet ==
    /\ [](/\ is_some(si.silence)
          /\ \A d \in Durations \cup {SilenceTicks, TimeoutTicks} :
                is_some(silence(si, d).silence))
    /\ [][last'.err # "SilenceMissing"]_vars

(* listen found silence set and started its read *)
C39_Witness ==
    /\ si.mode = "Sniff" /\ last.act = "run_sniff" /\ pc = "clear"
    /\ si.status = "Read" /\ args.silence = si.silence
    /\ is_some(args.silence)



====
